---- MODULE Spec2Model ----
(***************************************************************************)
(* State-machine model of ASQESpectrometer (src/libspec.py): the device    *)
(* session, the flash reader, the calibration parser and the acquisition   *)
(* pipeline.  One step of the model is one call of a native primitive of   *)
(* the driver library together with the Python code that runs up to the    *)
(* next primitive call.                                                    *)
(*                                                                         *)
(* Sizes.  The source fixes CHUNK_SIZE = 1000, MAX_SIZE = 100000 = 100 *   *)
(* CHUNK_SIZE, a 12-line header and three blocks of 3653 lines.  The model *)
(* keeps every relation between these numbers (MAX_SIZE is a whole number  *)
(* of chunks, the blocks are NPIX lines long and one line apart) and makes *)
(* the numbers themselves bounds, so that flashes can be enumerated.       *)
(*                                                                         *)
(* Bytes are integers 0..255.  Flash contents are drawn from the alphabet  *)
(* { '\n', '0'..'9', 'x', 'n', 'a', 0xFF }; decode, splitlines and float   *)
(* are modelled exactly on that alphabet.                                  *)
(*                                                                         *)
(* Numbers.  A parsed float is a natural number or NAN.  The spectra are   *)
(* computed in exact arithmetic on fractions <<n, d>> in lowest terms,     *)
(* with <<1, 0>>, <<-1, 0>> and <<0, 0>> for +inf, -inf and nan as numpy   *)
(* produces them on division by zero; rounding and overflow of float64     *)
(* are not modelled.                                                       *)
(***************************************************************************)
EXTENDS Integers, Sequences, FiniteSets, TLC

\* ------------------------------------------------------------------ bounds

\* Chunk length of read_calibration_file (1000 in the source).
CHUNK_SIZE == 4
\* MAX_SIZE counted in chunks (100 in the source: 100000 = 100 * 1000).
MaxChunks == 6
\* Length of each coefficient block and of the frame window (3653).
NPIX == 2
\* Number of lines in front of the wavelength block (12).
HEADER == 3
\* Operations a caller issues on one session.
MaxCalls == 2
\* 0xFF 0xFF pairs placed in an enumerated raw flash.
MaxPairs == 2
\* getStatus polls of one capture that are told apart (more count as MaxPolls).
MaxPolls == 2

\* Frame pixels in front of the first background window (15), in the first
\* background window (16), in the second one (6) and behind it (2).
LEAD == 1
BG1_LEN == 2
BG2_LEN == 1
TAIL == 1

\* --------------------------------------------------------------- constants

MAX_SIZE == MaxChunks * CHUNK_SIZE

\* Line ranges of load_calibration_data: lines[12:3665], [3666:7319],
\* [7320:10973]; 3665 = 12 + 3653, 7319 = 3666 + 3653, 10973 = 7320 + 3653.
BCK_LINE == 1
WL_START == HEADER
WL_END == WL_START + NPIX
\* (faulty variant, for comparison: the norm block starts right behind the wavelength block)
NormStartAdjacent == WL_END
NORM_START == WL_END + 1
NORM_END == NORM_START + NPIX
POWER_START == NORM_END + 1
POWER_END == POWER_START + NPIX

READ_FLASH_OK == 0

\* Slices of subtract_background: data[15:31], data[32:3685], data[3686:3692]
\* of a buffer of 3694 pixels; 31 = 15 + 16, 32 = 31 + 1, 3685 = 32 + 3653,
\* 3686 = 3685 + 1, 3692 = 3686 + 6, 3694 = 3692 + 2.
BG1_START == LEAD
\* (faulty variant, for comparison: the first background window includes pixel 31)
Bg1EndInclusive == BG1_START + BG1_LEN + 1
BG1_END == BG1_START + BG1_LEN
WIN_START == BG1_START + BG1_LEN + 1
WIN_END == WIN_START + NPIX
BG2_START == WIN_END + 1
BG2_END == BG2_START + BG2_LEN
BUFFER_SIZE == BG2_START + BG2_LEN + TAIL
\* Second argument of getFrame (line 189).
GET_FRAME_ARG == 65535

\* '\n', 0xFF, '0', 'n' and 'a' as byte values.
NL == 10
FF == 255
CH_0 == 48
CH_N == 110
CH_A == 97

\* Bytes the device can serve: readFlash is asked for offsets 0 .. MAX_SIZE +
\* CHUNK_SIZE - 1; one further chunk lies behind the last one that is read.
FlashSize == MAX_SIZE + 2 * CHUNK_SIZE

Min(a, b) == IF a < b THEN a ELSE b

\* Option values: <<>> is None, <<v>> holds v.
None == <<>>
Some(v) == <<v>>

\* ---------------------------------------------------------- pure functions

\* bytes.find(b"\xff\xff"): 0-based index of the first pair, -1 when absent.
HasPairAt(data, i) == i >= 1 /\ i < Len(data) /\ data[i] = FF /\ data[i + 1] = FF

find(data) ==
    IF \E i \in 1..Len(data) : HasPairAt(data, i)
    THEN (CHOOSE i \in 1..Len(data) :
              HasPairAt(data, i) /\ \A j \in 1..(i - 1) : ~HasPairAt(data, j)) - 1
    ELSE -1

\* The buffer readFlash fills for (offset, size): the flash bytes at offset ..
\* offset + size - 1 (flash is a sequence, byte at offset o is flash[o + 1]).
FlashBytes(fl, off, size) == SubSeq(fl, off + 1, off + size)

\* bytes.decode("utf-8") succeeds on ASCII; a byte 0x80..0xFF that starts no
\* valid sequence (0xFF never does) raises UnicodeDecodeError.
Utf8Ok(b) == \A i \in 1..Len(b) : b[i] < 128

\* str.splitlines() on text whose only line break is '\n': one line per
\* '\n', and one more for text behind the last '\n'.
NLPos(s) == {i \in 1..Len(s) : s[i] = NL}
KthNL(s, k) == CHOOSE p \in NLPos(s) : Cardinality({q \in NLPos(s) : q < p}) = k - 1
NumLines(s) ==
    Cardinality(NLPos(s)) + (IF Len(s) > 0 /\ s[Len(s)] # NL THEN 1 ELSE 0)
LineStart(s, j) == IF j = 1 THEN 1 ELSE KthNL(s, j - 1) + 1
LineEnd(s, j) == IF j <= Cardinality(NLPos(s)) THEN KthNL(s, j) - 1 ELSE Len(s)

splitlines(s) == [j \in 1..NumLines(s) |-> SubSeq(s, LineStart(s, j), LineEnd(s, j))]

\* float(line) on the alphabet: a non-empty run of decimal digits is its
\* value, "nan" is not-a-number, anything else (an empty line, an 'x', other
\* words of 'n' and 'a') raises ValueError.  NAN stands for the float nan, no
\* line of digits having a negative value.
NAN == -1
NanText == <<CH_N, CH_A, CH_N>>
IsDigit(c) == c >= CH_0 /\ c <= CH_0 + 9
IsFloat(line) ==
    \/ Len(line) > 0 /\ \A i \in 1..Len(line) : IsDigit(line[i])
    \/ line = NanText

RECURSIVE float(_)
float(line) ==
    IF line = NanText THEN NAN
    ELSE IF Len(line) = 0 THEN 0
    ELSE 10 * float(SubSeq(line, 1, Len(line) - 1)) + (line[Len(line)] - CH_0)

\* lines[a:b] of a Python list (0-based, clipped to the list).
Slice(lines, a, b) ==
    IF a >= Min(b, Len(lines)) THEN <<>> ELSE SubSeq(lines, a + 1, Min(b, Len(lines)))

\* np.array(lines, dtype=float): every entry must convert.
AllFloat(lines) == \A i \in 1..Len(lines) : IsFloat(lines[i])
FloatArray(lines) == [i \in 1..Len(lines) |-> float(lines[i])]

\* load_calibration_data, lines 129-142, on the blob read_calibration_file
\* returned: the calibration fields after the call and the exception raised
\* ("" for none).  Fields assigned before a raise keep their new values.
\* (faulty variant, for comparison: the flag of line 142 is never set)
MarkLoadedForgets(c) == c

MarkLoaded(c) == [c EXCEPT !.loaded = TRUE]

ParseLines(c, lines) ==
    LET wl == Slice(lines, WL_START, WL_END)
        nm == Slice(lines, NORM_START, NORM_END)
        pw == Slice(lines, POWER_START, POWER_END)
    IN  IF Len(lines) <= BCK_LINE \/ ~IsFloat(lines[BCK_LINE + 1])
        THEN [cal |-> c, exc |-> "ValueError"]
        ELSE
        LET c1 == [c EXCEPT !.bck_aT = Some(float(lines[BCK_LINE + 1]))]
        IN  IF ~AllFloat(wl) THEN [cal |-> c1, exc |-> "ValueError"]
            ELSE
            LET c2 == [c1 EXCEPT !.wavelength = Some(FloatArray(wl))]
            IN  IF ~AllFloat(nm) THEN [cal |-> c2, exc |-> "ValueError"]
                ELSE
                LET c3 == [c2 EXCEPT !.norm_coef = Some(FloatArray(nm))]
                IN  IF ~AllFloat(pw) THEN [cal |-> c3, exc |-> "ValueError"]
                    ELSE [cal |-> MarkLoaded([c3 EXCEPT !.power_coef = Some(FloatArray(pw))]),
                          exc |-> ""]

\* (lines \in {splitlines(blob)}: the list of lines is computed once.)
ParseCalibration(c, blob) ==
    IF ~Utf8Ok(blob) THEN [cal |-> c, exc |-> "UnicodeDecodeError"]
    ELSE CHOOSE r \in {ParseLines(c, lines) : lines \in {splitlines(blob)}} : TRUE

\* numpy's in-place a op= b on one-dimensional arrays of n and m elements
\* works when b has n elements or exactly one; otherwise ValueError.
Broadcasts(n, m) == m = n \/ m = 1

\* The Python code that runs after getFrame returned, per entry point:
\* subtract_background slices the window (NPIX elements), normalize_spectrum
\* divides by norm_coef, get_calibrated_spectrum multiplies by power_coef.
AfterFrame(o, c) ==
    CASE o \in {"get_spectrum", "subtract_background"} -> "ok"
      [] o = "normalize_spectrum" ->
            IF Broadcasts(NPIX, Len(c.norm_coef[1])) THEN "ok" ELSE "ValueError"
      [] OTHER ->
            IF Broadcasts(NPIX, Len(c.norm_coef[1]))
               /\ Broadcasts(NPIX, Len(c.power_coef[1]))
            THEN "ok" ELSE "ValueError"

\* Fractions.  Rat(n, d) is n / d in lowest terms with d >= 0; d = 0 gives
\* what float64 division by zero gives: inf with the sign of n, nan for 0 / 0.
Abs(x) == IF x < 0 THEN -x ELSE x
Sign(x) == IF x < 0 THEN -1 ELSE IF x > 0 THEN 1 ELSE 0

\* (CHOOSE r \in {Op(x, y) : x \in {a}, y \in {b}} : TRUE is Op(a, b) with a and
\* b computed once, before Op is applied.)
RECURSIVE GCD(_, _)
GCD(a, b) == IF b = 0 THEN a ELSE CHOOSE r \in {GCD(x, y) : x \in {b}, y \in {a % b}} : TRUE

Reduced(n, g) == <<n[1] \div g, n[2] \div g>>
Fraction(n, d) ==
    IF d = 0 THEN <<Sign(n), 0>>
    ELSE CHOOSE r \in {Reduced(x, y) : x \in {<<Sign(d) * n, Abs(d)>>}, y \in {GCD(Abs(n), Abs(d))}} : TRUE
Rat(n, d) == CHOOSE r \in {Fraction(x, y) : x \in {n}, y \in {d}} : TRUE

Num(x) == <<x, 1>>
Float(x) == IF x = NAN THEN <<0, 0>> ELSE Num(x)

\* a + b and a - b of finite a, b; a * b; a / b with b not negative.
Plus(a, b) == Rat(a[1] * b[2] + b[1] * a[2], a[2] * b[2])
Minus(a, b) == Rat(a[1] * b[2] - b[1] * a[2], a[2] * b[2])
Times(a, b) == Rat(a[1] * b[1], a[2] * b[2])
Over(a, b) == Rat(a[1] * b[2], a[2] * b[1])
RAdd(a, b) == CHOOSE r \in {Plus(x, y) : x \in {a}, y \in {b}} : TRUE
RSub(a, b) == CHOOSE r \in {Minus(x, y) : x \in {a}, y \in {b}} : TRUE
RMul(a, b) == CHOOSE r \in {Times(x, y) : x \in {a}, y \in {b}} : TRUE
RDiv(a, b) == CHOOSE r \in {Over(x, y) : x \in {a}, y \in {b}} : TRUE

RECURSIVE Sum(_)
Sum(xs) == IF Len(xs) = 0 THEN 0 ELSE Head(xs) + Sum(Tail(xs))

\* np.mean of a non-empty list of pixels.
Mean(xs) == Rat(Sum(xs), Len(xs))

\* subtract_background (lines 202-207) on the buffer capture_frame returned.
\* (faulty variant, for comparison: the two window means are added, not averaged)
BackgroundSums(data) ==
    RAdd(Mean(Slice(data, BG1_START, BG1_END)), Mean(Slice(data, BG2_START, BG2_END)))

Background(data) ==
    RDiv(RAdd(Mean(Slice(data, BG1_START, BG1_END)), Mean(Slice(data, BG2_START, BG2_END))),
         Num(2))

subtract_background(data) ==
    LET background == Background(data)
        window == Slice(data, WIN_START, WIN_END)
    IN  [i \in 1..Len(window) |-> RSub(Num(window[i]), background)]

\* Element i of array b when it is combined in place with an array of n
\* elements: b[i], or the one element of b stretched over the n.
Stretched(b, i) == IF Len(b) = 1 THEN b[1] ELSE b[i]

\* normalize_spectrum (lines 218-224): data /= self.norm_coef.
normalize_spectrum(c, data) ==
    LET corrected == subtract_background(data)
    IN  <<c.wavelength[1],
          [i \in 1..Len(corrected) |-> RDiv(corrected[i], Float(Stretched(c.norm_coef[1], i)))]>>

\* get_calibrated_spectrum (lines 232-234):
\* data *= self.power_coef / (self.exposure_time * self.bck_aT).
get_calibrated_spectrum(c, p, data) ==
    LET normalized == normalize_spectrum(c, data)
        divisor == RMul(Num(p.exposure_time), Float(c.bck_aT[1]))
        factor == [j \in 1..Len(c.power_coef[1]) |-> RDiv(Float(c.power_coef[1][j]), divisor)]
    IN  <<normalized[1],
          [i \in 1..Len(normalized[2]) |-> RMul(normalized[2][i], Stretched(factor, i))]>>

\* What a pipeline call returns when it does not raise (AfterFrame is "ok").
ReturnValue(o, c, p, data) ==
    CASE o = "get_spectrum" -> data
      [] o = "subtract_background" -> subtract_background(data)
      [] o = "normalize_spectrum" -> normalize_spectrum(c, data)
      [] OTHER -> get_calibrated_spectrum(c, p, data)

\* ------------------------------------------------------------------ inputs

\* Text of a number as the calibration file holds it: decimal digits of
\* n >= 0, "nan" for NAN.
RECURSIVE Format(_)
Format(n) ==
    IF n = NAN THEN NanText
    ELSE IF n < 10 THEN <<CH_0 + n>> ELSE Format(n \div 10) \o <<CH_0 + (n % 10)>>

\* A line of k letters 'x' (header and separator text, never numeric).
XLine(k) == [i \in 1..k |-> 120]

RECURSIVE JoinLines(_)
JoinLines(lines) ==
    IF Len(lines) = 0 THEN <<>> ELSE Head(lines) \o <<NL>> \o JoinLines(Tail(lines))

FormatAll(vals) == [i \in 1..Len(vals) |-> Format(vals[i])]

\* The lines of a calibration file built from an input record: line0, bck_aT,
\* empty filler lines up to the wavelength block, then the three blocks,
\* "separated" by one text line each or "adjacent"; "short" ends after bck_aT.
Fillers == [i \in 1..(HEADER - 2) |-> <<>>]
Sep(in) == IF in.layout = "separated" THEN <<XLine(1)>> ELSE <<>>

InputLines(in) ==
    IF in.layout = "short" THEN <<in.line0, Format(in.bck)>>
    ELSE <<in.line0, Format(in.bck)>> \o Fillers
         \o FormatAll(in.wl) \o Sep(in)
         \o (IF in.badnorm THEN <<XLine(1)>> \o Tail(FormatAll(in.nm)) ELSE FormatAll(in.nm))
         \o Sep(in) \o FormatAll(in.pw)

InputBlob(in) == JoinLines(InputLines(in))

\* An erased flash byte reads 0xFF: the text, the 0xFF 0xFF terminator, then
\* erased bytes up to the size of the flash.
BuiltFlash(in) ==
    LET text == InputBlob(in) \o <<FF, FF>>
    IN  [i \in 1..FlashSize |-> IF i <= Len(text) THEN text[i] ELSE FF]

\* A raw flash: digits everywhere, except 0xFF 0xFF at each offset of marks.
RawFlash(marks) ==
    [i \in 1..FlashSize |->
        IF (i - 1) \in marks \/ (i - 2) \in marks THEN FF ELSE CH_0 + ((i - 1) % 10)]

FlashOf(in) == IF in.layout = "raw" THEN RawFlash(in.marks) ELSE BuiltFlash(in)

\* Numbers of one and of two digits; coefficient arrays with at most one
\* two-digit entry.
Vals == {1, 12}
Arrays == {[i \in 1..NPIX |-> IF i = k THEN 12 ELSE 1] : k \in 0..NPIX}
Ones == [i \in 1..NPIX |-> 1]

\* Frames the sensor delivers: every pixel v; every pixel 4 but pixel k - 1,
\* which is 10; pixel i - 1 holding i * i.
Uniform(v) == [i \in 1..BUFFER_SIZE |-> v]
Bumped(k) == [i \in 1..BUFFER_SIZE |-> IF i = k THEN 10 ELSE 4]
Ramp == [i \in 1..BUFFER_SIZE |-> i * i]
SessionFrames == {Uniform(1000), Ramp}
PipelineFrames == {Uniform(0), Uniform(1000), Ramp} \cup {Bumped(k) : k \in 1..BUFFER_SIZE}

Input(layout, line0, bck, wl, nm, pw, badnorm, marks) ==
    [layout |-> layout, line0 |-> line0, bck |-> bck, wl |-> wl, nm |-> nm,
     pw |-> pw, badnorm |-> badnorm, marks |-> marks, frames |-> SessionFrames]

RawInput(marks) == Input("raw", <<>>, 0, <<>>, <<>>, <<>>, FALSE, marks)

\* Flashes of the session model: well-formed files whose terminator falls at
\* every position relative to the chunk grid, a file with adjacent blocks, a
\* file of two lines, a file with a non-numeric coefficient, a flash without
\* terminator.
SessionInputs ==
    {Input("separated", XLine(k), 2, Ones, Ones, Ones, FALSE, {}) : k \in 0..(CHUNK_SIZE - 1)}
    \cup {Input("adjacent", <<>>, 2, Ones, Ones, Ones, FALSE, {}),
          Input("short", <<>>, 2, <<>>, <<>>, <<>>, FALSE, {}),
          Input("separated", <<>>, 2, Ones, Ones, Ones, TRUE, {}),
          RawInput({})}

\* The terminator of the file lies wholly inside one of the chunks read.
Readable(in) ==
    LET n == Len(InputBlob(in))
    IN  n % CHUNK_SIZE # CHUNK_SIZE - 1 /\ n + 2 <= MAX_SIZE + CHUNK_SIZE

\* Well-formed files for the numeric pipeline: coefficients 2 everywhere, or
\* with a 0 in front, or with a nan at the end; bck_aT 2, 0 or nan; one value
\* off the plain file at a time.  The first line is as long as it takes for
\* the terminator to be readable.
Twos == [i \in 1..NPIX |-> 2]
ZeroFirst == [i \in 1..NPIX |-> IF i = 1 THEN 0 ELSE 2]
NanLast == [i \in 1..NPIX |-> IF i = NPIX THEN NAN ELSE 2]

PipelineInput(b, nm, pw) ==
    LET file(k) == [Input("separated", XLine(k), b, Twos, nm, pw, FALSE, {})
                        EXCEPT !.frames = PipelineFrames]
    IN  IF Readable(file(0)) THEN file(0) ELSE file(1)

PipelineInputs ==
    {PipelineInput(2, Twos, Twos)}
    \cup {PipelineInput(b, Twos, Twos) : b \in {0, NAN}}
    \cup {PipelineInput(2, nm, Twos) : nm \in {ZeroFirst, NanLast}}
    \cup {PipelineInput(2, Twos, pw) : pw \in {ZeroFirst, NanLast}}

\* Every flash with at most MaxPairs terminator pairs, at any offsets.
PairOffsets == 0..(FlashSize - 2)
RECURSIVE OffsetSets(_)
OffsetSets(k) ==
    IF k = 0 THEN {{}}
    ELSE LET smaller == OffsetSets(k - 1)
         IN  smaller \cup {s \cup {x} : s \in smaller, x \in PairOffsets}

RawInputs == {RawInput(m) : m \in OffsetSets(MaxPairs)}

\* Calibration files built from every choice of bck_aT and coefficients, in
\* both layouts, with a first line of 0 .. CHUNK_SIZE - 1 letters.
RoundTripInputs ==
    {Input(l, XLine(k), b, w, n, p, FALSE, {}) :
        l \in {"separated", "adjacent"}, k \in 0..(CHUNK_SIZE - 1),
        b \in Vals, w \in Arrays, n \in Arrays, p \in Arrays}

\* ------------------------------------------------------------------- state

VARIABLES
    pc,        \* where the session is: "new", "idle", inside a call, "failed", "dead"
    op,        \* the entry point being run (or run last)
    calls,     \* calls the caller has issued on the session
    input,     \* how the flash of the device was built, the frames its sensor delivers
    flash,     \* the bytes of the device flash
    params,    \* num_of_scans .. reduction_mode of the object
    device,    \* what the device last accepted: acquisition parameters, frame format
    cal,       \* _calibration_data_loaded, bck_aT, wavelength, norm_coef, power_coef
    rd,        \* locals of read_calibration_file: offset, FOUND_TERMINATION, full_data
    frames,    \* local of capture_frame: frames.value
    buffer,    \* the frame buffer of the last capture_frame, <<>> while there is none
    result,    \* how the last call ended: "ok" or the exception raised
    ret,       \* the value the last call returned: blob, frame, spectrum; <<>> for none
    dev,       \* number of calls of each native primitive on this session
    obs,       \* observations of the run the properties are stated on
    held       \* the caller still holds the session object

vars ==
    <<pc, op, calls, input, flash, params, device, cal, rd, frames, buffer, result, ret, dev, obs,
      held>>

Status == {0, 1}

PipelineOps ==
    {"get_spectrum", "subtract_background", "normalize_spectrum", "get_calibrated_spectrum"}
CalibratedOps == {"normalize_spectrum", "get_calibrated_spectrum"}

\* __init__, lines 26-39.
InitParams ==
    [num_of_scans |-> 1, num_of_blank_scans |-> 0, exposure_time |-> 1000, scan_mode |-> 3,
     num_of_start_element |-> 0, num_of_end_element |-> 3647, reduction_mode |-> 0]

InitCal ==
    [loaded |-> FALSE, bck_aT |-> None, wavelength |-> None, norm_coef |-> None,
     power_coef |-> None]

InitRd == [offset |-> 0, found |-> FALSE, full_data |-> <<>>]

InitDev ==
    [connect |-> 0, disconnect |-> 0, setAcq |-> 0, setFmt |-> 0, trigger |-> 0,
     getStatus |-> FALSE, getFrame |-> 0, readFlash |-> 0]

InitObs ==
    [connectStatus |-> 0,      \* what connectToDevice returned
     nonzero |-> FALSE,        \* a primitive returned nonzero during the current call
     afterNonzero |-> FALSE,   \* ... and the call went on to call another primitive
     callTrig |-> 0,           \* triggerAcquisition calls of the current call
     callFrame |-> 0,          \* getFrame calls of the current call
     callPolls |-> 0,          \* getStatus calls of the current call, up to MaxPolls
     reads |-> <<>>,           \* offsets of the readFlash calls of the current call
     calibRequested |-> FALSE, \* normalize_spectrum or get_calibrated_spectrum was called
     loadReturned |-> FALSE,   \* a load_calibration_data call has returned normally
     loadFailed |-> FALSE,     \* the latest load_calibration_data call raised
     acquiredWith |-> None,    \* what the device held when the latest acquisition started
     exposureUsed |-> None,    \* exposure_time the latest calibrated spectrum was divided by
     frameArg |-> 0,           \* second argument of the latest getFrame call
     blobLines |-> -1,         \* lines of the last blob load_calibration_data decoded
     okCalls |-> 0,            \* pipeline calls that returned
     failedCalls |-> 0,        \* pipeline calls that raised
     failedLoads |-> 0]        \* ... of which those that raised while loading the calibration

InitWith(inputs) ==
    /\ pc = "new"
    /\ op = "none"
    /\ calls = 0
    /\ input \in inputs
    /\ flash = FlashOf(input)
    /\ params = InitParams
    /\ device = [acq |-> None, fmt |-> None]
    /\ cal = InitCal
    /\ rd = InitRd
    /\ frames = 0
    /\ buffer = <<>>
    /\ result = "none"
    /\ ret = <<>>
    /\ dev = InitDev
    /\ obs = InitObs
    /\ held = TRUE

Init == InitWith(SessionInputs)

\* A primitive returned status s during the current call.
Noted(o, s) == [o EXCEPT !.afterNonzero = @ \/ o.nonzero, !.nonzero = @ \/ (s # 0)]

\* A new call starts.
Fresh(o) ==
    [o EXCEPT !.nonzero = FALSE, !.afterNonzero = FALSE, !.callTrig = 0, !.callFrame = 0,
              !.callPolls = 0, !.reads = <<>>]

\* A call of entry point o ended with outcome r.
Ended(o, e, r) ==
    IF e \in PipelineOps
    THEN IF r = "ok" THEN [o EXCEPT !.okCalls = @ + 1] ELSE [o EXCEPT !.failedCalls = @ + 1]
    ELSE o

\* A call of entry point e raised while it was loading the calibration
\* (lines 215-216), before capture_frame was reached.
RaisedInLoad(o, e, r) ==
    IF e \in PipelineOps THEN [Ended(o, e, r) EXCEPT !.failedLoads = @ + 1] ELSE Ended(o, e, r)

\* ----------------------------------------------------------------- actions

\* connect (lines 88-91), called by __init__ (line 45).
\* (faulty variant, for comparison: the status of connectToDevice is not tested)
ConnectNextIgnores(status) == "idle"

ConnectNext(status) == IF status # 0 THEN "failed" ELSE "idle"

Connect ==
    /\ pc = "new"
    /\ \E status \in Status :
        /\ pc' = ConnectNext(status)
        /\ result' = IF pc' = "failed" THEN "ConnectionError" ELSE "none"
        /\ dev' = [dev EXCEPT !.connect = @ + 1]
        /\ obs' = [obs EXCEPT !.connectStatus = status]
    /\ UNCHANGED <<op, calls, input, flash, params, device, cal, rd, frames, buffer, ret, held>>

\* set_parameters (lines 144-160): every argument that is not None is stored.
Given(arg, old) == IF arg = None THEN old ELSE arg[1]

set_parameters(p, a) ==
    [num_of_scans |-> Given(a.num_of_scans, p.num_of_scans),
     num_of_blank_scans |-> Given(a.num_of_blank_scans, p.num_of_blank_scans),
     exposure_time |-> Given(a.exposure_time, p.exposure_time),
     scan_mode |-> Given(a.scan_mode, p.scan_mode),
     num_of_start_element |-> Given(a.num_of_start_element, p.num_of_start_element),
     num_of_end_element |-> Given(a.num_of_end_element, p.num_of_end_element),
     reduction_mode |-> Given(a.reduction_mode, p.reduction_mode)]

NoArgs ==
    [num_of_scans |-> None, num_of_blank_scans |-> None, exposure_time |-> None,
     scan_mode |-> None, num_of_start_element |-> None, num_of_end_element |-> None,
     reduction_mode |-> None]

ParamArgs ==
    {[NoArgs EXCEPT !.exposure_time = Some(500)],
     [NoArgs EXCEPT !.exposure_time = Some(0)],
     [NoArgs EXCEPT !.num_of_scans = Some(2), !.num_of_end_element = Some(100)]}

SetParameters ==
    /\ pc = "idle"
    /\ held
    /\ calls < MaxCalls
    /\ \E a \in ParamArgs : params' = set_parameters(params, a)
    /\ calls' = calls + 1
    /\ op' = "set_parameters"
    /\ result' = "ok"
    /\ obs' = Fresh(obs)
    /\ UNCHANGED <<pc, input, flash, device, cal, rd, frames, buffer, ret, dev, held>>

\* configure_acquisition (lines 162-176): two primitives, neither status read.
\* ctypes.c_uint8 / c_uint16 keep the low 8 / 16 bits of the value; c_uint32
\* keeps every value 0 <= v < 2^32, which covers the integers of the model.
U8(v) == v % 256
U16(v) == v % 65536
U32(v) == v

AcqArgs(p) ==
    <<U16(p.num_of_scans), U16(p.num_of_blank_scans), U8(p.scan_mode), U32(p.exposure_time)>>
FmtArgs(p) ==
    <<U16(p.num_of_start_element), U16(p.num_of_end_element), U8(p.reduction_mode)>>

\* The device keeps what it accepted with status 0.
Accepted(old, status, args) == IF status = 0 THEN Some(args) ELSE old

SetAcquisitionParameters ==
    /\ pc = "idle"
    /\ held
    /\ calls < MaxCalls
    /\ \E status \in Status :
        /\ device' = [device EXCEPT !.acq = Accepted(@, status, AcqArgs(params))]
        /\ obs' = Noted(Fresh(obs), status)
    /\ calls' = calls + 1
    /\ op' = "configure_acquisition"
    /\ result' = "running"
    /\ pc' = "set_frame_format"
    /\ dev' = [dev EXCEPT !.setAcq = @ + 1]
    /\ UNCHANGED <<input, flash, params, cal, rd, frames, buffer, ret, held>>

SetFrameFormat ==
    /\ pc = "set_frame_format"
    /\ \E status \in Status :
        /\ device' = [device EXCEPT !.fmt = Accepted(@, status, FmtArgs(params))]
        /\ obs' = Noted(obs, status)
    /\ result' = "ok"
    /\ pc' = "idle"
    /\ dev' = [dev EXCEPT !.setFmt = @ + 1]
    /\ UNCHANGED <<op, calls, input, flash, params, cal, rd, frames, buffer, ret, held>>

\* Whether a call of entry point o reads the flash: normalize_spectrum (line
\* 215) and load_calibration_data (line 124) test _calibration_data_loaded,
\* read_calibration_file always reads, the other entry points never do.
\* (faulty variant, for comparison: an assigned bck_aT counts as a cached calibration)
NeedsLoadUnlessAssigned(o, loaded) ==
    CASE o \in CalibratedOps -> ~loaded /\ cal.bck_aT = None
      [] o = "load_calibration_data" -> ~loaded /\ cal.bck_aT = None
      [] o = "read_calibration_file" -> TRUE
      [] OTHER -> FALSE
\* (faulty variant, for comparison: the pipeline never loads the calibration itself)
NeedsLoadNever(o, loaded) == o = "read_calibration_file"

NeedsLoad(o, loaded) ==
    CASE o \in CalibratedOps -> ~loaded
      [] o = "load_calibration_data" -> ~loaded
      [] o = "read_calibration_file" -> TRUE
      [] OTHER -> FALSE

\* The caller calls entry point o; the Python code runs up to the first
\* primitive (readFlash at offset 0, or triggerAcquisition).  What the call
\* before returned is let go of.
Call(o) ==
    /\ pc = "idle"
    /\ held
    /\ calls < MaxCalls
    /\ calls' = calls + 1
    /\ op' = o
    /\ obs' = [Fresh(obs) EXCEPT !.calibRequested = @ \/ (o \in CalibratedOps)]
    /\ IF NeedsLoad(o, cal.loaded)
       THEN pc' = "read_flash" /\ rd' = InitRd /\ result' = "running"
       ELSE IF o \in PipelineOps
            THEN pc' = "trigger" /\ result' = "running" /\ UNCHANGED rd
            ELSE pc' = "idle" /\ result' = "ok" /\ UNCHANGED rd
    /\ buffer' = <<>>
    /\ ret' = <<>>
    /\ UNCHANGED <<input, flash, params, device, cal, frames, dev, held>>

\* read_calibration_file: the loop condition (line 110) and one iteration on
\* the chunk that read_flash returned (lines 112-118).
LoopRuns(r) == r.offset <= MAX_SIZE /\ ~r.found

\* (faulty variant, for comparison: the terminator itself is appended)
read_chunk_keeps_marker(r, data) ==
    LET stop_index == find(data)
    IN  [offset |-> r.offset + CHUNK_SIZE,
         found |-> stop_index # -1,
         full_data |-> r.full_data
                       \o (IF stop_index # -1 THEN SubSeq(data, 1, stop_index + 2) ELSE data)]

\* (faulty variant, for comparison: the scan runs over the bytes read so far, across chunk borders)
read_chunk_scans_joined(r, data) ==
    LET stop_index == find(r.full_data \o data)
    IN  [offset |-> r.offset + CHUNK_SIZE,
         found |-> stop_index # -1,
         full_data |-> IF stop_index # -1 THEN SubSeq(r.full_data \o data, 1, stop_index)
                       ELSE r.full_data \o data]

read_chunk(r, data) ==
    LET stop_index == find(data)
    IN  [offset |-> r.offset + CHUNK_SIZE,
         found |-> stop_index # -1,
         full_data |-> r.full_data
                       \o (IF stop_index # -1 THEN SubSeq(data, 1, stop_index) ELSE data)]

BlobLines(blob) == IF Utf8Ok(blob) THEN Len(splitlines(blob)) ELSE -1

\* What follows a readFlash call that returned status, r2 being the locals
\* after the iteration on the chunk it delivered: read_flash raises
\* (line 101), or the loop goes on, or read_calibration_file returns and its
\* caller (load_calibration_data, then normalize_spectrum) carries on.
AfterRead(status, r2) ==
    LET o1 == [Noted(obs, status) EXCEPT !.reads = Append(@, rd.offset)]
        pr == ParseCalibration(cal, r2.full_data)
        o2 == [o1 EXCEPT !.blobLines = BlobLines(r2.full_data), !.loadFailed = pr.exc # ""]
        same == [pc |-> "read_flash", rd |-> rd, cal |-> cal, result |-> result,
                 ret |-> ret, obs |-> o1]
    IN  IF status # READ_FLASH_OK
        THEN [same EXCEPT !.pc = "idle", !.result = "RuntimeError",
                          !.obs = RaisedInLoad([o1 EXCEPT !.loadFailed =
                                                           @ \/ op # "read_calibration_file"],
                                               op, "RuntimeError")]
        ELSE IF LoopRuns(r2) THEN [same EXCEPT !.rd = r2]
        ELSE IF op = "read_calibration_file"
        THEN [same EXCEPT !.pc = "idle", !.rd = r2, !.result = "ok", !.ret = r2.full_data]
        ELSE IF pr.exc # ""
        THEN [same EXCEPT !.pc = "idle", !.rd = r2, !.cal = pr.cal, !.result = pr.exc,
                          !.obs = RaisedInLoad(o2, op, pr.exc)]
        ELSE IF op = "load_calibration_data"
        THEN [same EXCEPT !.pc = "idle", !.rd = r2, !.cal = pr.cal, !.result = "ok",
                          !.obs = [o2 EXCEPT !.loadReturned = TRUE]]
        ELSE [same EXCEPT !.pc = "trigger", !.rd = r2, !.cal = pr.cal,
                          !.obs = [o2 EXCEPT !.loadReturned = TRUE]]

ReadFlash ==
    /\ pc = "read_flash"
    /\ LoopRuns(rd)
    /\ \E status \in Status :
       \E r2 \in {read_chunk(rd, FlashBytes(flash, rd.offset, CHUNK_SIZE))} :
       \E n \in {AfterRead(status, r2)} :
            /\ pc' = n.pc
            /\ rd' = n.rd
            /\ cal' = n.cal
            /\ result' = n.result
            /\ ret' = n.ret
            /\ obs' = n.obs
    /\ dev' = [dev EXCEPT !.readFlash = @ + 1]
    /\ UNCHANGED <<op, calls, input, flash, params, device, frames, buffer, held>>

\* capture_frame (lines 178-191).
TriggerAcquisition ==
    /\ pc = "trigger"
    /\ \E status \in Status :
        obs' = [Noted(obs, status) EXCEPT !.callTrig = @ + 1, !.acquiredWith = device.acq]
    /\ dev' = [dev EXCEPT !.trigger = @ + 1]
    /\ frames' = 0
    /\ pc' = "poll"
    /\ UNCHANGED <<op, calls, input, flash, params, device, cal, rd, buffer, result, ret, held>>

\* The loop test of line 183 after getStatus wrote the frame count f.
\* (faulty variant, for comparison: the trigger sits inside the poll loop)
PollNextRetriggers(f) == IF f = 0 THEN "trigger" ELSE "get_frame"

\* (faulty variant, for comparison: the frame is fetched after one poll, whatever it reported)
PollNextFetches(f) == "get_frame"
\* (faulty variant, for comparison: the loop gives up when a poll reports no frame)
PollNextGivesUp(f) == IF f = 0 THEN "idle" ELSE "get_frame"

PollNext(f) == IF f = 0 THEN "poll" ELSE "get_frame"

GetStatus ==
    /\ pc = "poll"
    /\ \E status \in Status, f \in {0, 1} :
        /\ frames' = f
        /\ pc' = PollNext(f)
        /\ obs' = [Noted(obs, status) EXCEPT !.callPolls = Min(@ + 1, MaxPolls)]
    /\ dev' = [dev EXCEPT !.getStatus = TRUE]
    /\ UNCHANGED <<op, calls, input, flash, params, device, cal, rd, buffer, result, ret, held>>

\* getFrame fills the buffer of BUFFER_SIZE pixels (lines 187-189); the code
\* of the entry point behind it runs on the buffer that capture_frame returns.
GetFrame ==
    /\ pc = "get_frame"
    /\ \E data \in input.frames, status \in Status :
       \E r \in {AfterFrame(op, cal)} :
       \E v \in {IF r = "ok" THEN ReturnValue(op, cal, params, data) ELSE ret} :
            /\ result' = r
            /\ buffer' = data
            /\ ret' = v
            /\ obs' = Ended([Noted(obs, status) EXCEPT
                                !.callFrame = @ + 1,
                                !.frameArg = GET_FRAME_ARG,
                                !.exposureUsed =
                                    IF op = "get_calibrated_spectrum" /\ r = "ok"
                                    THEN Some(params.exposure_time) ELSE None],
                            op, r)
    /\ dev' = [dev EXCEPT !.getFrame = @ + 1]
    /\ pc' = "idle"
    /\ UNCHANGED <<op, calls, input, flash, params, device, cal, rd, frames, held>>

\* The caller lets go of the session: its names for the object go out of
\* scope or are deleted, or the program ends.  The class offers nothing to
\* call at this point (no close method, no context manager), and no method
\* of it disconnects in a try/finally.
Release ==
    /\ pc = "idle"
    /\ held
    /\ held' = FALSE
    /\ UNCHANGED <<pc, op, calls, input, flash, params, device, cal, rd, frames, buffer, result,
                   ret, dev, obs>>

\* __del__ (lines 236-237), the only place that calls disconnectDevice.  It
\* runs if and when the interpreter finalizes the object: an object the
\* caller has let go of, or one whose __init__ raised in connect.
Finalize(d) == [d EXCEPT !.disconnect = @ + 1]

Del ==
    /\ pc = "failed" \/ (pc = "idle" /\ ~held)
    /\ pc' = "dead"
    /\ dev' = Finalize(dev)
    /\ UNCHANGED <<op, calls, input, flash, params, device, cal, rd, frames, buffer, result, ret,
                   obs, held>>

\* ---------------------------------------------------------- specifications

\* A session on which the caller uses the acquisition API.
Next ==
    \/ Connect
    \/ SetParameters
    \/ SetAcquisitionParameters
    \/ SetFrameFormat
    \/ \E o \in PipelineOps : Call(o)
    \/ ReadFlash
    \/ TriggerAcquisition
    \/ GetStatus
    \/ GetFrame
    \/ Release
    \/ Del

Spec == Init /\ [][Next]_vars

\* A session on which the caller reads raw flashes with read_calibration_file.
InitFlash == InitWith(RawInputs)
NextFlash == Connect \/ Call("read_calibration_file") \/ ReadFlash \/ Release \/ Del
FlashSpec == InitFlash /\ [][NextFlash]_vars

\* A session on which the caller loads calibration files built from numbers.
InitRoundTrip == InitWith(RoundTripInputs)
NextRoundTrip == Connect \/ Call("load_calibration_data") \/ ReadFlash \/ Release \/ Del
RoundTripSpec == InitRoundTrip /\ [][NextRoundTrip]_vars

\* A session on a device with a well-formed calibration file and a sensor
\* delivering the frames of PipelineFrames.
InitPipeline == InitWith(PipelineInputs)
NextPipeline ==
    \/ Connect
    \/ SetParameters
    \/ \E o \in PipelineOps : Call(o)
    \/ ReadFlash
    \/ TriggerAcquisition
    \/ GetStatus
    \/ GetFrame
    \/ Release
    \/ Del
PipelineSpec == InitPipeline /\ [][NextPipeline]_vars

\* Sessions on which a call that has started runs on: the Python code
\* between two primitives of one method is straight-line code.  Nothing makes
\* the device report a frame, so GetStatus carries no fairness, and nothing
\* in the code makes the finalizer run once the caller has let go (an object
\* that a kept traceback or a reference cycle still refers to, or that is
\* alive when the process ends, need not be finalized), so Del carries none
\* either.
Progress == SetFrameFormat \/ ReadFlash \/ TriggerAcquisition \/ GetFrame
FairSpec == Spec /\ WF_vars(Progress)

\* Such sessions on one device with a well-formed calibration file.
CaptureInputs == {Input("separated", <<>>, 2, Ones, Ones, Ones, FALSE, {})}
InitCapture == InitWith(CaptureInputs)
CaptureSpec == InitCapture /\ [][Next]_vars /\ WF_vars(Progress)

\* ------------------------------------------------------------------ claims

\* C1: calibration loading is lazy and memoized: no readFlash call happens
\* before the first normalize_spectrum or get_calibrated_spectrum call, and
\* once a load has returned normally no later step calls readFlash.
C1_LazyMemoized ==
    /\ [](dev.readFlash > 0 => obs.calibRequested)
    /\ [][obs.loadReturned => dev'.readFlash = dev.readFlash]_vars

\* Two calibrated calls returned; the second one read no flash.
C1_Witness ==
    /\ pc = "idle" /\ op = "get_calibrated_spectrum" /\ result = "ok"
    /\ obs.okCalls = 2 /\ obs.loadReturned /\ obs.reads = <<>> /\ dev.readFlash > 0

\* C2: every nonzero status of a device primitive makes the calling operation
\* fail at once with a device error: no further primitive is called in that
\* operation and the operation does not go on or return normally.
C2_NonzeroStatusFails ==
    /\ obs.nonzero => (pc \in {"idle", "dead"} /\ result = "RuntimeError")
    /\ ~obs.afterNonzero

\* The pipeline call that ended last raised while it was loading the
\* calibration: it read the flash and its load raised.
LastRaisedInLoad == result # "ok" /\ obs.reads # <<>> /\ obs.loadFailed

\* C3, as stated: every completed pipeline call, whether it returned or
\* raised, has called triggerAcquisition exactly once and getFrame exactly
\* once, and after n completed pipeline calls the trigger count is n.
C3_OneTriggerEveryCall ==
    /\ (pc = "idle" /\ op \in PipelineOps)
          => (obs.callTrig = 1 /\ obs.callFrame = 1)
    /\ pc = "idle" => dev.trigger = obs.okCalls + obs.failedCalls

\* C3, amended: a pipeline call that returned, or that raised after its
\* capture, has called triggerAcquisition exactly once and getFrame exactly
\* once; a call that raised while loading the calibration has called neither;
\* and between calls both counts of the session are the number of completed
\* pipeline calls less those that raised while loading.
C3_OneTriggerPerCall ==
    /\ (pc = "idle" /\ op \in PipelineOps /\ ~LastRaisedInLoad)
          => (obs.callTrig = 1 /\ obs.callFrame = 1)
    /\ (pc = "idle" /\ op \in PipelineOps /\ LastRaisedInLoad)
          => (obs.callTrig = 0 /\ obs.callFrame = 0)
    /\ pc = "idle" =>
          /\ dev.trigger = obs.okCalls + obs.failedCalls - obs.failedLoads
          /\ dev.getFrame = dev.trigger

\* A calibrated call raised while loading, and the calibrated call after it
\* loaded the calibration itself and returned: two completed calls, one trigger.
C3_Witness ==
    /\ pc = "idle" /\ op = "get_calibrated_spectrum" /\ result = "ok"
    /\ obs.reads # <<>> /\ obs.okCalls = 1 /\ obs.failedLoads = 1 /\ dev.trigger = 1

\* A calibrated call loaded the calibration, captured a frame and raised in
\* the arithmetic on it: one trigger and one getFrame, no call returned.
C3_WitnessRaisedAfterCapture ==
    /\ pc = "idle" /\ op \in CalibratedOps /\ result # "ok" /\ ~LastRaisedInLoad
    /\ obs.failedCalls = 1 /\ obs.okCalls = 0 /\ dev.trigger = 1 /\ dev.getFrame = 1

\* C4: once the caller has let go of a connected session, whatever its calls
\* ended with (returned, or raised in the flash read, the parse or after the
\* capture), disconnectDevice is eventually called.
C4_TeardownRuns == (pc = "idle" /\ ~held) ~> (dev.disconnect = 1)

\* The caller has let go of a connected session whose last call raised, and
\* disconnectDevice has not been called: the session may stay so for ever.
C4_RaisedNotTornDown ==
    /\ pc = "idle" /\ ~held /\ dev.disconnect = 0 /\ obs.connectStatus = 0
    /\ result \in {"RuntimeError", "ValueError", "UnicodeDecodeError"}

\* C5: connectToDevice is called exactly once; when it returns nonzero the
\* session fails with ConnectionError, connectToDevice is not called again
\* and no configuration, trigger, status, frame or flash primitive is called.
C5_ConnectFailureStops ==
    /\ dev.connect = (IF pc = "new" THEN 0 ELSE 1)
    /\ obs.connectStatus # 0 =>
          /\ result = "ConnectionError"
          /\ dev.setAcq = 0 /\ dev.setFmt = 0 /\ dev.trigger = 0
          /\ ~dev.getStatus /\ dev.getFrame = 0 /\ dev.readFlash = 0

\* connectToDevice returned nonzero and the object was given up.
C5_Witness == obs.connectStatus # 0 /\ pc = "dead" /\ dev.connect = 1

\* Chunk k of the flash holds a 0xFF 0xFF pair wholly inside it, starting at
\* index j of the chunk.
PairIn(k, j) ==
    /\ j >= 0 /\ j <= CHUNK_SIZE - 2
    /\ flash[k * CHUNK_SIZE + j + 1] = FF
    /\ flash[k * CHUNK_SIZE + j + 2] = FF
PairInside(k) == \E j \in 0..(CHUNK_SIZE - 2) : PairIn(k, j)
\* Chunk k is the first chunk with a pair inside, at index j.
FirstPair(k, j) ==
    /\ PairIn(k, j)
    /\ \A i \in 0..(j - 1) : ~PairIn(k, i)
    /\ \A c \in 0..(k - 1) : ~PairInside(c)
\* The offsets 0, CHUNK_SIZE, ... of the first n chunks.
Offsets(n) == [i \in 1..n |-> (i - 1) * CHUNK_SIZE]
ReadReturned == pc = "idle" /\ op = "read_calibration_file" /\ result = "ok"
Reading == op = "read_calibration_file" /\ pc = "read_flash"

\* C6: read_calibration_file reads chunks of CHUNK_SIZE bytes at offsets 0,
\* CHUNK_SIZE, 2*CHUNK_SIZE, ... in increasing order; when chunk k (one of
\* the chunks at offsets 0 .. MAX_SIZE) is the first that holds the marker
\* wholly inside, the blob returned is the flash up to the marker and no
\* readFlash call is made beyond offset k * CHUNK_SIZE.
C6_BlobUpToFirstMarker ==
    /\ (Reading \/ ReadReturned) => obs.reads = Offsets(Len(obs.reads))
    /\ Reading => Len(rd.full_data) = rd.offset /\ rd.offset = Len(obs.reads) * CHUNK_SIZE
    /\ \A k \in 0..MaxChunks : \A j \in 0..(CHUNK_SIZE - 2) :
          FirstPair(k, j) =>
              /\ (Reading \/ ReadReturned) => Len(obs.reads) <= k + 1
              /\ ReadReturned =>
                    /\ ret = SubSeq(flash, 1, k * CHUNK_SIZE + j)
                    /\ obs.reads = Offsets(k + 1)

\* The marker was found in a chunk behind the first, with bytes in front of it.
C6_Witness ==
    /\ ReadReturned
    /\ \E k \in 1..MaxChunks : \E j \in 1..(CHUNK_SIZE - 2) :
          FirstPair(k, j) /\ Len(ret) = k * CHUNK_SIZE + j

\* A pair whose first byte ends chunk n - 1 and whose second byte starts chunk n.
Straddles(n) == flash[n * CHUNK_SIZE] = FF /\ flash[n * CHUNK_SIZE + 1] = FF

\* C7: a 0xFF 0xFF pair that straddles the border between two chunks (no
\* pair lying inside either of them or before) is not detected: both bytes
\* are appended and reading goes on with the next chunk; a pair that starts
\* exactly at offset n * CHUNK_SIZE is detected and ends the read with
\* nothing of chunk n appended.
C7_ChunkBoundary ==
    \A n \in 1..MaxChunks :
        /\ (/\ Straddles(n)
            /\ \A c \in 0..n : ~PairInside(c)
            /\ op = "read_calibration_file" /\ result \in {"running", "ok"}
            /\ rd.offset > n * CHUNK_SIZE)
              => /\ Len(rd.full_data) >= (n + 1) * CHUNK_SIZE
                 /\ rd.full_data[n * CHUNK_SIZE] = FF
                 /\ rd.full_data[n * CHUNK_SIZE + 1] = FF
                 /\ rd.offset = (n + 1) * CHUNK_SIZE
                       => (~rd.found /\ (n < MaxChunks => pc = "read_flash"))
        /\ (FirstPair(n, 0) /\ ReadReturned)
              => /\ ret = SubSeq(flash, 1, n * CHUNK_SIZE)
                 /\ obs.reads = Offsets(n + 1)

\* A straddling pair went undetected and both of its bytes are in the blob
\* that a later marker ended.
C7_Witness ==
    /\ ReadReturned /\ rd.found
    /\ \E n \in 1..(MaxChunks - 1) :
          /\ Straddles(n)
          /\ Len(ret) > n * CHUNK_SIZE + 1
          /\ ret[n * CHUNK_SIZE] = FF /\ ret[n * CHUNK_SIZE + 1] = FF

\* C8: when no chunk holds the marker and every readFlash succeeds,
\* read_calibration_file returns without raising a blob of at most MAX_SIZE
\* bytes: at most MAX_SIZE / CHUNK_SIZE chunks are read, none at offset
\* MAX_SIZE or beyond.
C8_CapAtMaxSize ==
    (op = "read_calibration_file" /\ \A c \in 0..(MaxChunks + 1) : ~PairInside(c))
        => /\ \A i \in 1..Len(obs.reads) : obs.reads[i] < MAX_SIZE
           /\ Len(obs.reads) <= MaxChunks
           /\ Len(rd.full_data) <= MAX_SIZE
           /\ ReadReturned => Len(ret) <= MAX_SIZE

\* C9: a blob that decodes to fewer than POWER_END lines is rejected:
\* load_calibration_data raises, the calibration is not marked loaded and no
\* coefficient array is cached.
C9_ShortBlobRejected ==
    (obs.blobLines >= 0 /\ obs.blobLines < POWER_END)
        => /\ ~cal.loaded
           /\ pc = "idle" => result = "ValueError"
           /\ cal.wavelength = None /\ cal.norm_coef = None /\ cal.power_coef = None

\* load_calibration_data ran on the blob read_calibration_file returned (no
\* readFlash call failed).
LoadEnded ==
    /\ pc = "idle" /\ op = "load_calibration_data"
    /\ result \in {"ok", "ValueError", "UnicodeDecodeError"}
RoundTrips ==
    /\ cal.loaded /\ result = "ok"
    /\ cal.bck_aT = Some(input.bck)
    /\ cal.wavelength = Some(input.wl)
    /\ cal.norm_coef = Some(input.nm)
    /\ cal.power_coef = Some(input.pw)
\* The terminator lies wholly inside one of the chunks that are read.
TerminatorReadable ==
    LET n == Len(InputBlob(input))
    IN  n % CHUNK_SIZE # CHUNK_SIZE - 1 /\ n + 2 <= MAX_SIZE + CHUNK_SIZE

\* C10 as stated: the file with the norm lines right behind the wavelength
\* lines and the power lines right behind the norm lines loads to the numbers
\* it was built from.
C10_RoundTripAdjacent == (input.layout = "adjacent" /\ LoadEnded) => RoundTrips

\* C10, amended: the file with one line between the wavelength and the norm
\* block and one line between the norm and the power block, whose terminator
\* lies wholly inside one of the chunks read, loads to the numbers it was
\* built from.
C10_RoundTripSeparated ==
    (input.layout = "separated" /\ TerminatorReadable /\ LoadEnded) => RoundTrips

\* Such a file, with a two-digit norm coefficient, was loaded.
C10_Witness ==
    /\ input.layout = "separated" /\ TerminatorReadable /\ LoadEnded /\ cal.loaded
    /\ \E i \in 1..NPIX : input.nm[i] = 12 /\ cal.norm_coef[1][i] = 12

\* C11: whenever the calibration is marked loaded, bck_aT is set and
\* wavelength, norm_coef and power_coef all have NPIX entries, the length of
\* the frame window they are combined with, whatever blob the flash returned.
C11_CachedArraysFullLength ==
    cal.loaded =>
        /\ cal.bck_aT # None
        /\ cal.wavelength # None /\ Len(cal.wavelength[1]) = NPIX
        /\ cal.norm_coef # None /\ Len(cal.norm_coef[1]) = NPIX
        /\ cal.power_coef # None /\ Len(cal.power_coef[1]) = NPIX

\* The session is connected: connectToDevice was called and returned 0.
Connected == dev.connect = 1 /\ obs.connectStatus = 0

\* C15: configuration, trigger, status, frame and flash primitives are called
\* only on a session whose connect succeeded and that is not yet
\* disconnected, and disconnectDevice is called only on a session whose
\* connect succeeded.
C15_Lifecycle ==
    /\ (dev.setAcq > 0 \/ dev.setFmt > 0 \/ dev.trigger > 0 \/ dev.getStatus
           \/ dev.getFrame > 0 \/ dev.readFlash > 0) => Connected
    /\ pc \notin {"new", "idle", "failed", "dead"} => (Connected /\ dev.disconnect = 0)
    /\ dev.disconnect > 0 => Connected

\* C13: within one capture the device is called in the order
\* triggerAcquisition, one or more getStatus, getFrame: polling starts after
\* exactly one trigger, getFrame is called only after a trigger and at least
\* one poll and only when the latest poll reported a nonzero frame count, and
\* once a poll has reported a nonzero count the next device call is getFrame.
C13_CaptureOrder ==
    /\ [](pc = "poll" => (obs.callTrig = 1 /\ obs.callFrame = 0 /\ frames = 0))
    /\ [](pc = "get_frame" =>
            (obs.callTrig = 1 /\ obs.callPolls >= 1 /\ obs.callFrame = 0 /\ frames # 0))
    /\ [][dev'.getFrame # dev.getFrame =>
            (frames # 0 /\ obs.callTrig = 1 /\ obs.callPolls >= 1 /\ obs.callFrame = 0)]_vars
    /\ [][(pc = "get_frame" \/ frames # 0) =>
            (obs'.callPolls = obs.callPolls \/ obs'.callPolls = 0)]_vars
    /\ [][pc = "get_frame" =>
            (dev'.getFrame = dev.getFrame + 1 /\ dev'.trigger = dev.trigger)]_vars

\* A capture returned after polls that reported no frame and one that did.
C13_Witness ==
    /\ pc = "idle" /\ op = "get_spectrum" /\ result = "ok"
    /\ obs.callTrig = 1 /\ obs.callPolls = MaxPolls /\ obs.callFrame = 1 /\ frames # 0

\* C14: the poll loop is left only by a poll that reports a nonzero frame
\* count, and then towards getFrame (no timeout, no exception: while the
\* device reports zero the capture stays in the loop); once a nonzero count
\* is reported the capture goes on to return.
C14_PollUntilFrame ==
    /\ [][(pc = "poll" /\ pc' # "poll") => (frames' # 0 /\ pc' = "get_frame")]_vars
    /\ [][pc = "poll" => (result' = result /\ calls' = calls)]_vars
    /\ ((pc = "get_frame") ~> (pc = "idle" /\ op \in PipelineOps /\ result # "running"))

\* A capture is still in the loop after MaxPolls polls that reported no frame.
C14_Witness ==
    /\ pc = "poll" /\ op \in PipelineOps /\ result = "running"
    /\ obs.callPolls = MaxPolls /\ frames = 0 /\ obs.callFrame = 0

\* The last call raised inside load_calibration_data.
FailedInLoad == pc = "idle" /\ op \in CalibratedOps /\ result # "ok" /\ ~cal.loaded

\* C19: a load that raised (readFlash error, decode error, bad bck_aT line,
\* non-numeric coefficient) leaves the calibration not loaded, and the next
\* normalize_spectrum or get_calibrated_spectrum call reads the flash again
\* from offset 0, whatever fields the failed load had assigned.
C19_FailedLoadNotCached ==
    /\ [](obs.loadFailed => ~cal.loaded)
    /\ [][(pc = "idle" /\ obs.loadFailed /\ calls' = calls + 1 /\ op' \in CalibratedOps)
             => (pc' = "read_flash" /\ rd'.offset = 0 /\ rd'.full_data = <<>> /\ ~rd'.found)]_vars
    /\ [][(obs.loadFailed /\ dev'.readFlash # dev.readFlash /\ obs.reads = <<>>)
             => obs'.reads = <<0>>]_vars

\* After a load that had assigned bck_aT and wavelength before it raised, the
\* next calibrated call is reading the flash again.
C19_Witness ==
    /\ calls = 2 /\ op \in CalibratedOps /\ pc = "read_flash" /\ obs.reads = <<0>>
    /\ obs.loadFailed /\ ~cal.loaded /\ cal.bck_aT # None /\ cal.wavelength # None

\* C20: in a calibrated call every readFlash call and the parse come before
\* triggerAcquisition: no trigger, poll or frame call has been made while the
\* flash is read, the capture starts only with the calibration loaded, no
\* flash is read after the trigger, and a call that raised while loading has
\* made no trigger, getStatus or getFrame call.
C20_LoadBeforeTrigger ==
    /\ [](pc = "read_flash" =>
            (obs.callTrig = 0 /\ obs.callPolls = 0 /\ obs.callFrame = 0))
    /\ []((pc \in {"trigger", "poll", "get_frame"} /\ op \in CalibratedOps) => cal.loaded)
    /\ [][dev'.readFlash # dev.readFlash => (obs.callTrig = 0 /\ obs'.callTrig = 0)]_vars
    /\ [](FailedInLoad => (obs.callTrig = 0 /\ obs.callPolls = 0 /\ obs.callFrame = 0))

\* The first calibrated call of a session read the flash and then captured.
C20_Witness ==
    /\ calls = 1 /\ op \in CalibratedOps /\ pc = "idle" /\ result = "ok"
    /\ Len(obs.reads) > 1 /\ obs.callTrig = 1 /\ obs.callFrame = 1

\* A first calibrated call raised while loading, without any capture call.
C20_WitnessFailed == calls = 1 /\ FailedInLoad /\ obs.reads # <<>> /\ dev.trigger = 0

\* The last call was entry point o and it returned; buffer is the frame it
\* captured and ret the value it returned.
Returned(o) == pc = "idle" /\ op = o /\ result = "ok" /\ obs.callFrame = 1
IsUniform(data) == \A i \in 1..Len(data) : data[i] = data[1]
Zeros == [i \in 1..NPIX |-> <<0, 1>>]
NormNonzero == \A i \in 1..Len(cal.norm_coef[1]) : cal.norm_coef[1][i] # 0
CalFinite ==
    /\ cal.bck_aT[1] # NAN
    /\ \A i \in 1..Len(cal.norm_coef[1]) : cal.norm_coef[1][i] # NAN
    /\ \A i \in 1..Len(cal.power_coef[1]) : cal.power_coef[1][i] # NAN

\* C12 as stated: for a frame whose pixels all hold the same value v the
\* background is v and the corrected spectrum is 0 at every position; with
\* nonzero norm_coef the normalized spectrum, and with nonzero bck_aT and
\* exposure time also the calibrated spectrum, is 0 at every position.
C12_UniformFrameZero ==
    IsUniform(buffer) =>
        /\ Returned("subtract_background") =>
              (Background(buffer) = Num(buffer[1]) /\ ret = Zeros)
        /\ (Returned("normalize_spectrum") /\ NormNonzero) => ret[2] = Zeros
        /\ (Returned("get_calibrated_spectrum") /\ NormNonzero
               /\ cal.bck_aT[1] # 0 /\ params.exposure_time # 0) => ret[2] = Zeros

\* C12, amended: the same, for a calibration whose bck_aT, norm_coef and
\* power_coef hold finite numbers only (no nan).
C12_UniformFrameZeroFinite ==
    IsUniform(buffer) =>
        /\ Returned("subtract_background") =>
              (Background(buffer) = Num(buffer[1]) /\ ret = Zeros)
        /\ (Returned("normalize_spectrum") /\ NormNonzero /\ CalFinite) => ret[2] = Zeros
        /\ (Returned("get_calibrated_spectrum") /\ NormNonzero /\ CalFinite
               /\ cal.bck_aT[1] # 0 /\ params.exposure_time # 0) => ret[2] = Zeros

\* The calibrated spectrum of a frame of 1000s, exposure 500, came out as zeros.
C12_Witness ==
    /\ Returned("get_calibrated_spectrum") /\ buffer = Uniform(1000)
    /\ params.exposure_time = 500 /\ NormNonzero /\ CalFinite /\ cal.bck_aT[1] # 0
    /\ ret[2] = Zeros

\* Sum of the n pixels of data from (0-based) index first on.
PixelSum(data, first, n) == Sum([k \in 1..n |-> data[first + k]])
\* Pixels that the claim says have no influence: those in front of the first
\* background window, the one behind it, the one behind the spectrum window
\* and those behind the second background window (0-based indices).
Ignored ==
    (0..(LEAD - 1)) \cup {LEAD + BG1_LEN, LEAD + BG1_LEN + 1 + NPIX}
        \cup ((LEAD + BG1_LEN + NPIX + 2 + BG2_LEN)..(LEAD + BG1_LEN + NPIX + 1 + BG2_LEN + TAIL))

\* C16: the spectrum subtract_background returns has NPIX elements, element i
\* being pixel LEAD + BG1_LEN + 1 + i minus the background, the background
\* being half the sum of the mean of the BG1_LEN pixels from index LEAD on
\* and the mean of the BG2_LEN pixels from index LEAD + BG1_LEN + NPIX + 2
\* on; a frame that differs only in the other pixels gives the same spectrum.
C16_BackgroundWindows ==
    Returned("subtract_background") =>
        /\ Len(buffer) = LEAD + BG1_LEN + NPIX + BG2_LEN + TAIL + 2
        /\ Len(ret) = NPIX
        /\ \A i \in 0..(NPIX - 1) :
              /\ ret[i + 1][2] > 0
              /\ ret[i + 1][1] * (2 * BG1_LEN * BG2_LEN) =
                    ret[i + 1][2] *
                       (buffer[LEAD + BG1_LEN + 1 + i + 1] * (2 * BG1_LEN * BG2_LEN)
                        - (PixelSum(buffer, LEAD, BG1_LEN) * BG2_LEN
                           + PixelSum(buffer, LEAD + BG1_LEN + NPIX + 2, BG2_LEN) * BG1_LEN))
        /\ \A other \in input.frames :
              (\A i \in (0..(Len(buffer) - 1)) \ Ignored : other[i + 1] = buffer[i + 1])
                  => subtract_background(other) = ret

\* A frame with one brighter pixel in the first background window was
\* corrected: every element of the spectrum is below zero.
C16_Witness ==
    /\ Returned("subtract_background") /\ buffer = Bumped(LEAD + 1)
    /\ \A i \in 1..NPIX : ret[i][1] < 0

\* C17: the buffer capture_frame returns has BUFFER_SIZE elements and the
\* count passed to getFrame does not exceed the length of the buffer.
C17_FrameFitsBuffer ==
    (pc = "idle" /\ op \in PipelineOps /\ obs.callFrame = 1)
        => (Len(buffer) = BUFFER_SIZE /\ obs.frameArg <= Len(buffer))

\* C18: the exposure time a calibrated spectrum was divided by is the
\* exposure time the device had last accepted from configure_acquisition
\* when the frame was acquired.
C18_ExposureConsistent ==
    Returned("get_calibrated_spectrum") =>
        /\ obs.acquiredWith # None
        /\ obs.exposureUsed = Some(obs.acquiredWith[1][4])

====
